---- MODULE Spec2Model ----
(***************************************************************************)
(* Model of src/app.py, the Streamlit script "Scientific Stat Engine".     *)
(*                                                                         *)
(* The session holds g_count and the widget values (group names n{i} and   *)
(* raw data texts d{i}).  Every user interaction reruns the script from    *)
(* the top: button handling (l.21-25), input parsing (l.30-37), the        *)
(* analysis guard (l.40), the assumption checks (l.43-51), the test        *)
(* dispatch (l.53-100) and the report generation (l.111-135).              *)
(*                                                                         *)
(* p-values are integers in units of 1e-5 (0.05 is 5000, 0.001 is 100);    *)
(* NaN is a separate value on which every comparison is false, as in       *)
(* Python.  The statistical libraries are outside the repository: each     *)
(* call returns a nondeterministically chosen p-value or NaN.              *)
(***************************************************************************)
EXTENDS Integers, Sequences, FiniteSets, TLC

\* ------------------------------------------------------------------ bounds
\* Cap on "Add Group" clicks explored (the script itself has no cap).
MaxGroups == 3

\* ------------------------------------------------------- numeric constants
\* float('nan'): every ordered comparison with it is False.
NaN == 0 - 1
\* 0.05 in units of 1e-5: the significance / assumption threshold.
Alpha == 5000
\* 0.001 in units of 1e-5: below it p is shown in scientific notation.
SciBelow == 100
\* initial g_count of a new session.
InitialGroups == 3
\* minimum g_count for which the Remove button is shown is above this.
MinGroups == 2
\* minimum number of values for a group to enter data_dict.
MinValues == 3

\* Python's p < t and p > t on floats, NaN included.
Lt(p, t) == p # NaN /\ p < t
Gt(p, t) == p # NaN /\ p > t

\* p-values the library calls may return (units of 1e-5), and NaN.
\* 5000 = 0.05 exactly, 20000 = 0.2
AssumptionPVals == {NaN, 5000, 20000}
\* 1 = 0.00001, 50 = 0.0005, 100 = 0.001, 3210 = 0.0321, 5000 = 0.05,
\* 99900 = 0.999
TestPVals == {NaN, 1, 50, 100, 3210, 5000, 99900}

\* ------------------------------------------------------------ input texts
\* Raw text-area contents as tuples of characters.
TextEmpty == <<>>
TextShort == <<"1", ",", "2", "\n">>
TextVaried == <<"1", ",", " ", "2", "\n", "\n", "1", "0">>
TextConstant == <<"5", "\n", "5", ",", " ", "5", " ">>
TextBad == <<"1", ",", "x", ",", "3", ",", "4">>
TextChoices == {TextShort, TextVaried, TextConstant, TextBad}

\* f"Group {i+1}" for the 0-based loop index i = slot - 1.
DefaultName(slot) == "Group " \o ToString(slot)
\* Names a user may type into a name box: its default, and for the second
\* box also the first group's name (a duplicate).
NameChoices(slot) ==
    IF slot = 2 THEN {DefaultName(2), DefaultName(1)} ELSE {DefaultName(slot)}

\* ------------------------------------------------------- parsing (l.36)
\* raw.replace(',', '\n')
ReplaceComma(raw) == [k \in 1..Len(raw) |-> IF raw[k] = "," THEN "\n" ELSE raw[k]]

\* s.split('\n'): the pieces between newlines, empty pieces included.
RECURSIVE SplitLines(_, _, _)
SplitLines(s, k, cur) ==
    IF k > Len(s) THEN <<cur>>
    ELSE IF s[k] = "\n" THEN <<cur>> \o SplitLines(s, k + 1, <<>>)
    ELSE SplitLines(s, k + 1, Append(cur, s[k]))

\* x.strip(): leading and trailing blanks removed.
RECURSIVE LStrip(_)
LStrip(x) == IF x # <<>> /\ Head(x) = " " THEN LStrip(Tail(x)) ELSE x
RECURSIVE RStrip(_)
RStrip(x) ==
    IF x # <<>> /\ x[Len(x)] = " " THEN RStrip(SubSeq(x, 1, Len(x) - 1)) ELSE x
Strip(x) == LStrip(RStrip(x))

DigitValue(c) ==
    CASE c = "0" -> 0 [] c = "1" -> 1 [] c = "2" -> 2 [] c = "3" -> 3
      [] c = "4" -> 4 [] c = "5" -> 5 [] c = "6" -> 6 [] c = "7" -> 7
      [] c = "8" -> 8 [] c = "9" -> 9 [] OTHER -> NaN
IsDigit(c) == DigitValue(c) # NaN

\* float(tok) on a stripped token made of the characters used here:
\* a non-empty run of digits is its decimal value, anything else raises
\* ValueError.
FloatOk(tok) == tok # <<>> /\ \A k \in 1..Len(tok) : IsDigit(tok[k])
RECURSIVE FloatValue(_)
FloatValue(tok) ==
    IF tok = <<>> THEN 0
    ELSE 10 * FloatValue(SubSeq(tok, 1, Len(tok) - 1)) + DigitValue(tok[Len(tok)])

\* [float(x.strip()) for x in ... if x.strip()]
RECURSIVE KeepNonBlank(_)
KeepNonBlank(toks) ==
    IF toks = <<>> THEN <<>>
    ELSE IF Strip(Head(toks)) # <<>>
         THEN <<Strip(Head(toks))>> \o KeepNonBlank(Tail(toks))
         ELSE KeepNonBlank(Tail(toks))
Tokens(raw) == KeepNonBlank(SplitLines(ReplaceComma(raw), 1, <<>>))
ParseRaises(raw) == \E k \in 1..Len(Tokens(raw)) : ~FloatOk(Tokens(raw)[k])
ParseVals(raw) == [k \in 1..Len(Tokens(raw)) |-> FloatValue(Tokens(raw)[k])]

\* if len(vals) >= 3 (l.37)
EnoughValues(vals) == Len(vals) >= MinValues

\* data_dict[name] = vals on an insertion-ordered dict.
DictSet(dd, name, vals) ==
    IF \E k \in 1..Len(dd) : dd[k].name = name
    THEN [k \in 1..Len(dd) |->
            IF dd[k].name = name THEN [name |-> name, vals |-> vals] ELSE dd[k]]
    ELSE Append(dd, [name |-> name, vals |-> vals])

\* The input loop l.32-37 from slot i on; raises on the first bad token.
RECURSIVE ReadGroups(_, _, _, _, _)
ReadGroups(i, n, nms, txts, dd) ==
    IF i > n THEN [raised |-> FALSE, dd |-> dd]
    ELSE IF ParseRaises(txts[i]) THEN [raised |-> TRUE, dd |-> dd]
    ELSE ReadGroups(i + 1, n, nms, txts,
                    IF EnoughValues(ParseVals(txts[i]))
                    THEN DictSet(dd, nms[i], ParseVals(txts[i]))
                    ELSE dd)

\* Mutant of AnalysisGuard: the guard lets a single group through.
AnalysisGuard_AtLeastOne(dd) == Len(dd) >= 1
\* if len(data_dict) >= 2 (l.40)
AnalysisGuard(dd) == Len(dd) >= 2

\* ------------------------------------------------- p-value formatting
RECURSIVE NumDigits(_)
NumDigits(n) == IF n < 10 THEN 1 ELSE 1 + NumDigits(n \div 10)
RECURSIVE Pow10(_)
Pow10(e) == IF e = 0 THEN 1 ELSE 10 * Pow10(e - 1)
RECURSIVE ZeroPad(_, _)
ZeroPad(n, width) ==
    IF NumDigits(n) >= width THEN ToString(n)
    ELSE "0" \o ZeroPad(n, width - 1)

\* f"{p:.4f}": rounded to 4 decimals (p is in units of 1e-5; the values
\* used are not binary rounding ties), "nan" for NaN.
Fmt4f(p) ==
    IF p = NaN THEN "nan"
    ELSE LET r == (p + 5) \div 10
         IN ToString(r \div 10000) \o "." \o ZeroPad(r % 10000, 4)

\* f"{p:.2e}": three significant digits and a signed two-digit exponent.
Fmt2e(p) ==
    IF p = NaN THEN "nan"
    ELSE IF p = 0 THEN "0.00e+00"
    ELSE LET d == NumDigits(p)
             m0 == IF d <= 3 THEN p * Pow10(3 - d)
                   ELSE (p + 5 * Pow10(d - 4)) \div Pow10(d - 3)
             m == IF m0 = 1000 THEN 100 ELSE m0
             e == IF m0 = 1000 THEN d - 5 ELSE d - 6
         IN ToString(m \div 100) \o "." \o ZeroPad(m % 100, 2) \o "e"
              \o (IF e < 0 THEN "-" ELSE "+") \o ZeroPad(IF e < 0 THEN 0 - e ELSE e, 2)

\* l.69 and l.79: f"{p:.2e}" if p < 0.001 else f"{p:.4f}"
AutoFormat(p) == IF Lt(p, SciBelow) THEN Fmt2e(p) ELSE Fmt4f(p)
\* l.93: p_disp = f"{p_kw:.4f}"
KruskalFormat(p) == Fmt4f(p)

\* ------------------------------------------------ method dispatch (l.57-100)
StudentT == "Student's t-test"
WelchT == "Welch's t-test"
MannWhitneyU == "Mann-Whitney U-test"
OneWayAnovaTukey == "One-way ANOVA + Tukey's HSD"
KruskalWallisDunn == "Kruskal-Wallis test (Non-parametric)"

\* The branch conditions of l.58, l.61 and l.74.
IsTwoGroups(n) == n = 2
AnovaBranch(normal, eqvar) == normal /\ eqvar

\* Mutant of SelectMethod: the two-group parametric branch ignores the
\* variance flag.
SelectMethod_AlwaysStudent(n, normal, eqvar) ==
    IF IsTwoGroups(n)
    THEN IF normal THEN StudentT ELSE MannWhitneyU
    ELSE IF AnovaBranch(normal, eqvar)
         THEN OneWayAnovaTukey
         ELSE KruskalWallisDunn
\* The value assigned to `method` on the branch taken.
SelectMethod(n, normal, eqvar) ==
    IF IsTwoGroups(n)
    THEN IF normal
         THEN (IF eqvar THEN StudentT ELSE WelchT)
         ELSE MannWhitneyU
    ELSE IF AnovaBranch(normal, eqvar)
         THEN OneWayAnovaTukey
         ELSE KruskalWallisDunn

\* Mutant of TestCall: ttest_ind is always called with equal_var=False.
TestCall_NeverPooled(n, normal, eqvar) ==
    IF IsTwoGroups(n)
    THEN IF normal
         THEN [cap |-> "ttest_ind", opt |-> "equal_var=False"]
         ELSE [cap |-> "mannwhitneyu", opt |-> "alternative=two-sided"]
    ELSE IF AnovaBranch(normal, eqvar)
         THEN [cap |-> "f_oneway", opt |-> ""]
         ELSE [cap |-> "kruskal", opt |-> ""]
\* The library function called on the branch taken, with its option.
TestCall(n, normal, eqvar) ==
    IF IsTwoGroups(n)
    THEN IF normal
         THEN [cap |-> "ttest_ind",
               opt |-> IF eqvar THEN "equal_var=True" ELSE "equal_var=False"]
         ELSE [cap |-> "mannwhitneyu", opt |-> "alternative=two-sided"]
    ELSE IF AnovaBranch(normal, eqvar)
         THEN [cap |-> "f_oneway", opt |-> ""]
         ELSE [cap |-> "kruskal", opt |-> ""]

\* The string assigned to p_disp on the branch taken.
PDisp(n, normal, eqvar, p) ==
    IF IsTwoGroups(n) THEN AutoFormat(p)
    ELSE IF AnovaBranch(normal, eqvar) THEN AutoFormat(p)
    ELSE KruskalFormat(p)

\* Mutant of OmnibusSignificant: <= instead of <.
OmnibusSignificant_Le(p) == p # NaN /\ p <= Alpha
\* if p_anova < 0.05 (l.82) / if p_kw < 0.05 (l.96)
OmnibusSignificant(p) == Lt(p, Alpha)

\* The post-hoc calls made on the branch taken (none for two groups).
PostHocCalls(n, normal, eqvar, p) ==
    IF IsTwoGroups(n) THEN <<>>
    ELSE IF AnovaBranch(normal, eqvar)
         THEN (IF OmnibusSignificant(p)
               THEN <<[cap |-> "pairwise_tukeyhsd", opt |-> ""]>> ELSE <<>>)
         ELSE (IF OmnibusSignificant(p)
               THEN <<[cap |-> "posthoc_dunn", opt |-> "p_adjust=bonferroni"]>>
               ELSE <<>>)

\* --------------------------------------------- assumption checks (l.43-51)
\* Mutant of AccumulateNormal: = instead of &=, the last group decides.
AccumulateNormal_Overwrite(acc, p) == Gt(p, Alpha)
\* all_normal &= (p_s > 0.05)
AccumulateNormal(acc, p) == acc /\ Gt(p, Alpha)
\* is_equal_var = (p_lev > 0.05)
EqualVarFlag(p) == Gt(p, Alpha)

\* ------------------------------------------------ report (l.111-135)
\* Mutant of IsSig: <= instead of <.
IsSig_Le(p) == p # NaN /\ p <= Alpha
\* is_sig = (p_final < 0.05)
IsSig(p) == Lt(p, Alpha)

\* Mutant of RationaleBranch: the first test looks at normality alone.
RationaleBranch_NormalOnly(normal, eqvar) ==
    IF normal THEN "parametric"
    ELSE IF ~normal THEN "nonparametric"
    ELSE "welch"
\* The if / elif / else of l.114-122: the branch taken.
RationaleBranch(normal, eqvar) ==
    IF normal /\ eqvar THEN "parametric"
    ELSE IF ~normal THEN "nonparametric"
    ELSE "welch"

EnParametric == "Since the data followed a normal distribution with equal variance, a parametric test (t-test/ANOVA) was selected."
EnNonParametric == "Due to the presence of outliers or non-normal distribution, a non-parametric test was selected for robustness."
EnUnequalVar == "Due to unequal variances, Welch's correction was applied."
\* The Japanese sentences, transliterated by meaning.
JpParametric == "JP: distribution not skewed and spread uniform, so the standard t-test/ANOVA was selected."
JpNonParametric == "JP: outliers or skew were seen, so a rank-based non-parametric test was selected."
JpUnequalVar == "JP: spread differed between groups, so Welch's correction was applied."

EnReason(branch) ==
    CASE branch = "parametric" -> EnParametric
      [] branch = "nonparametric" -> EnNonParametric
      [] branch = "welch" -> EnUnequalVar
JpReason(branch) ==
    CASE branch = "parametric" -> JpParametric
      [] branch = "nonparametric" -> JpNonParametric
      [] branch = "welch" -> JpUnequalVar

EnVerdict(sig) == IF sig THEN "Significant Difference Found" ELSE "No Significant Difference"
\* "yuui-sa ari" / "yuui-sa nashi"
JpVerdict(sig) == IF sig THEN "JP: significant difference" ELSE "JP: no significant difference"
EnConclusion(sig) == IF sig THEN "rejected" ELSE "not rejected"

\* jp_report (l.124-128) and en_report (l.130-135) by their fields.
JpReport(m, reason, sig, disp) ==
    [method |-> m, reason |-> reason, verdict |-> JpVerdict(sig), p |-> disp]
EnReport(m, reason, sig, disp) ==
    [method |-> m, reason |-> reason, verdict |-> EnVerdict(sig), p |-> disp,
     conclusion_method |-> m, conclusion |-> EnConclusion(sig)]
NoReport == [method |-> "", reason |-> "", verdict |-> "", p |-> ""]

\* ------------------------------------------------ group counter (l.21-25)
\* st.session_state.g_count += 1
AddGroup(g) == g + 1
\* st.session_state.g_count -= 1
RemoveGroup(g) == g - 1
\* Mutant of RemoveAvailable: >= instead of >.
RemoveAvailable_AtTwo(g) == g >= MinGroups
\* st.session_state.g_count > 2: the Remove button is rendered.
RemoveAvailable(g) == g > MinGroups

\* ------------------------------------------------------------------ state
VARIABLES
    g_count,        \* st.session_state.g_count
    names,          \* widget values n{i}, slot 1..g_count
    texts,          \* widget values d{i}, slot 1..g_count
    clicked,        \* the interaction that triggered the current run
    pc,             \* position of the current script run
    outcome,        \* how the run ended: "info", "report", "ValueError"
    data_dict,      \* l.30-37, insertion-ordered [name, vals] entries
    all_normal,     \* l.43-47
    shapiro_log,    \* l.44-48
    p_lev,          \* l.50
    is_equal_var,   \* l.51
    method,         \* l.53
    p_final,        \* l.54
    p_disp,         \* l.55
    is_sig,         \* l.111
    jp_report,      \* l.124
    en_report,      \* l.130
    shapiro_calls,  \* stats.shapiro invocations: [group, p]
    levene_calls,   \* stats.levene invocations: [groups, p]
    test_calls,     \* primary test invocations: [cap, opt, p]
    posthoc_calls   \* post-hoc invocations: [cap, opt]

widgets == <<g_count, names, texts>>
locals == <<data_dict, all_normal, shapiro_log, p_lev, is_equal_var, method,
            p_final, p_disp, is_sig, jp_report, en_report>>
calls == <<shapiro_calls, levene_calls, test_calls, posthoc_calls>>
vars == <<widgets, clicked, pc, outcome, locals, calls>>

\* A script run starts with nothing computed and nothing called yet.
FreshRun ==
    /\ pc' = "input"
    /\ outcome' = "running"
    /\ data_dict' = <<>>
    /\ all_normal' = TRUE
    /\ shapiro_log' = <<>>
    /\ p_lev' = 0
    /\ is_equal_var' = FALSE
    /\ method' = ""
    /\ p_final' = 0
    /\ p_disp' = ""
    /\ is_sig' = FALSE
    /\ jp_report' = NoReport
    /\ en_report' = NoReport
    /\ shapiro_calls' = <<>>
    /\ levene_calls' = <<>>
    /\ test_calls' = <<>>
    /\ posthoc_calls' = <<>>

\* First run of a new session: l.21 sets g_count, no button was clicked,
\* every name box holds its default and every data box is empty.
Init ==
    /\ g_count = InitialGroups
    /\ names = [i \in 1..InitialGroups |-> DefaultName(i)]
    /\ texts = [i \in 1..InitialGroups |-> TextEmpty]
    /\ clicked = "none"
    /\ pc = "input"
    /\ outcome = "running"
    /\ data_dict = <<>>
    /\ all_normal = TRUE
    /\ shapiro_log = <<>>
    /\ p_lev = 0
    /\ is_equal_var = FALSE
    /\ method = ""
    /\ p_final = 0
    /\ p_disp = ""
    /\ is_sig = FALSE
    /\ jp_report = NoReport
    /\ en_report = NoReport
    /\ shapiro_calls = <<>>
    /\ levene_calls = <<>>
    /\ test_calls = <<>>
    /\ posthoc_calls = <<>>

\* ------------------------------------------------ user interactions
\* "+ Add Group" clicked (l.24); the rerun renders one more name box and
\* data box, with their defaults.
ClickAdd ==
    /\ pc = "done"
    /\ g_count < MaxGroups
    /\ g_count' = AddGroup(g_count)
    /\ names' = [i \in 1..g_count' |->
                    IF i <= g_count THEN names[i] ELSE DefaultName(i)]
    /\ texts' = [i \in 1..g_count' |->
                    IF i <= g_count THEN texts[i] ELSE TextEmpty]
    /\ clicked' = "add"
    /\ FreshRun

\* "- Remove Group" clicked (l.25); the button exists only when the
\* previous run rendered it.  Widgets no longer rendered lose their state.
ClickRemove ==
    /\ pc = "done"
    /\ RemoveAvailable(g_count)
    /\ g_count' = RemoveGroup(g_count)
    /\ names' = [i \in 1..g_count' |-> names[i]]
    /\ texts' = [i \in 1..g_count' |-> texts[i]]
    /\ clicked' = "remove"
    /\ FreshRun

\* A name box edited (l.34).  The data box's label contains the name
\* (l.35); depending on the Streamlit version, a changed label keeps or
\* resets the data box.
EditName ==
    /\ pc = "done"
    /\ \E i \in 1..g_count : \E nm \in NameChoices(i), keep \in BOOLEAN :
        /\ nm # names[i]
        /\ names' = [names EXCEPT ![i] = nm]
        /\ texts' = IF keep THEN texts ELSE [texts EXCEPT ![i] = TextEmpty]
    /\ g_count' = g_count
    /\ clicked' = "name"
    /\ FreshRun

\* A data box edited (l.35).
EditData ==
    /\ pc = "done"
    /\ \E i \in 1..g_count, t \in TextChoices \cup {TextEmpty} :
        /\ t # texts[i]
        /\ texts' = [texts EXCEPT ![i] = t]
    /\ UNCHANGED <<g_count, names>>
    /\ clicked' = "data"
    /\ FreshRun

\* ------------------------------------------------ the script run
\* l.30-40 and l.145-146: parse every box, then the analysis guard.
ReadInputs ==
    /\ pc = "input"
    /\ LET r == ReadGroups(1, g_count, names, texts, <<>>)
       IN /\ data_dict' = r.dd
          /\ IF r.raised
             THEN pc' = "done" /\ outcome' = "ValueError"
             ELSE IF AnalysisGuard(r.dd)
                  THEN pc' = "shapiro" /\ outcome' = outcome
                  ELSE pc' = "done" /\ outcome' = "info"
    /\ UNCHANGED <<widgets, clicked, all_normal, shapiro_log, p_lev,
                   is_equal_var, method, p_final, p_disp, is_sig, jp_report,
                   en_report, calls>>

\* One iteration of the loop l.45-48, for the next entry of data_dict.
Shapiro ==
    /\ pc = "shapiro"
    /\ LET k == Len(shapiro_log) + 1
       IN \E p_s \in AssumptionPVals :
            /\ shapiro_calls' = Append(shapiro_calls,
                                       [group |-> data_dict[k].name, p |-> p_s])
            /\ all_normal' = AccumulateNormal(all_normal, p_s)
            /\ shapiro_log' = Append(shapiro_log,
                                     [name |-> data_dict[k].name, p |-> Fmt4f(p_s)])
            /\ pc' = IF k = Len(data_dict) THEN "levene" ELSE "shapiro"
    /\ UNCHANGED <<widgets, clicked, outcome, data_dict, p_lev, is_equal_var,
                   method, p_final, p_disp, is_sig, jp_report, en_report,
                   levene_calls, test_calls, posthoc_calls>>

\* l.50-51: one Levene test over all groups.
Levene ==
    /\ pc = "levene"
    /\ \E p \in AssumptionPVals :
        /\ levene_calls' = Append(levene_calls,
               [groups |-> [k \in 1..Len(data_dict) |-> data_dict[k].name],
                p |-> p])
        /\ p_lev' = p
        /\ is_equal_var' = EqualVarFlag(p)
    /\ pc' = "test"
    /\ UNCHANGED <<widgets, clicked, outcome, data_dict, all_normal,
                   shapiro_log, method, p_final, p_disp, is_sig, jp_report,
                   en_report, shapiro_calls, test_calls, posthoc_calls>>

\* l.57-100: the branch for the group count and the two flags: the test
\* is called, p_final and p_disp are set, the post-hoc test is called
\* when its condition holds.
RunTest ==
    /\ pc = "test"
    /\ LET n == Len(data_dict)
       IN \E p \in TestPVals :
            /\ method' = SelectMethod(n, all_normal, is_equal_var)
            /\ test_calls' = Append(test_calls,
                   [cap |-> TestCall(n, all_normal, is_equal_var).cap,
                    opt |-> TestCall(n, all_normal, is_equal_var).opt,
                    p |-> p])
            /\ p_final' = p
            /\ p_disp' = PDisp(n, all_normal, is_equal_var, p)
            /\ posthoc_calls' = posthoc_calls
                                  \o PostHocCalls(n, all_normal, is_equal_var, p)
    /\ pc' = "report"
    /\ UNCHANGED <<widgets, clicked, outcome, data_dict, all_normal,
                   shapiro_log, p_lev, is_equal_var, is_sig, jp_report,
                   en_report, shapiro_calls, levene_calls>>

\* l.111-135: the verdict, the rationale and the two reports.
ComposeReports ==
    /\ pc = "report"
    /\ is_sig' = IsSig(p_final)
    /\ jp_report' = JpReport(method,
                             JpReason(RationaleBranch(all_normal, is_equal_var)),
                             is_sig', p_disp)
    /\ en_report' = EnReport(method,
                             EnReason(RationaleBranch(all_normal, is_equal_var)),
                             is_sig', p_disp)
    /\ outcome' = "report"
    /\ pc' = "done"
    /\ UNCHANGED <<widgets, clicked, data_dict, all_normal, shapiro_log, p_lev,
                   is_equal_var, method, p_final, p_disp, calls>>

Next ==
    \/ ClickAdd
    \/ ClickRemove
    \/ EditName
    \/ EditData
    \/ ReadInputs
    \/ Shapiro
    \/ Levene
    \/ RunTest
    \/ ComposeReports

Spec == Init /\ [][Next]_vars

\* ================================================================ claims
Reported == outcome = "report"
NumGroups == Len(data_dict)
NoCalls ==
    /\ shapiro_calls = <<>> /\ levene_calls = <<>>
    /\ test_calls = <<>> /\ posthoc_calls = <<>>
NoReports == jp_report = NoReport /\ en_report = NoReport

\* The decision table of the specification, row by row.
TableMethod(n, normal, eqvar) ==
    CASE n = 2 /\ normal /\ eqvar -> StudentT
      [] n = 2 /\ normal /\ ~eqvar -> WelchT
      [] n = 2 /\ ~normal -> MannWhitneyU
      [] n >= 3 /\ normal /\ eqvar -> OneWayAnovaTukey
      [] n >= 3 /\ normal /\ ~eqvar -> KruskalWallisDunn
      [] n >= 3 /\ ~normal -> KruskalWallisDunn

\* C1: in every run that reaches the dispatch, the method selected (and
\* named in both reports) is the decision-table entry for the group count
\* and the two flags; the group count is at least 2, so a row always applies.
Thm_C1_DecisionTable ==
    (pc = "report" \/ Reported) =>
        /\ NumGroups >= 2
        /\ method = TableMethod(NumGroups, all_normal, is_equal_var)
        /\ Reported => /\ en_report.method = method
                       /\ jp_report.method = method

\* C1 witness: a two-group run with normal data and unequal variance that
\* reported Welch's t-test.
Wit_C1_Welch ==
    /\ Reported /\ NumGroups = 2 /\ all_normal /\ ~is_equal_var
    /\ en_report.method = WelchT

\* The three rationale conditions of the specification.
RationaleConds(normal, eqvar) ==
    {b \in {"parametric", "nonparametric", "welch"} :
        \/ b = "parametric" /\ normal /\ eqvar
        \/ b = "nonparametric" /\ ~normal
        \/ b = "welch" /\ normal /\ ~eqvar}

\* C2: a report for Welch's t-test, or for Kruskal-Wallis chosen because
\* normal data had unequal variance, carries the unequal-variance sentence
\* and not the equal-variance one; and in every report exactly one of the
\* three rationale conditions holds and both reports carry its sentence.
Thm_C2_RationaleConsistency ==
    Reported =>
        /\ (\/ method = WelchT
            \/ method = KruskalWallisDunn /\ all_normal /\ ~is_equal_var)
              => /\ en_report.reason = EnUnequalVar
                 /\ en_report.reason # EnParametric
        /\ Cardinality(RationaleConds(all_normal, is_equal_var)) = 1
        /\ \A b \in RationaleConds(all_normal, is_equal_var) :
              /\ en_report.reason = EnReason(b)
              /\ jp_report.reason = JpReason(b)

\* C2 witness: three or more normal groups with unequal variance, reported
\* as Kruskal-Wallis with the unequal-variance sentence.
Wit_C2_KruskalUnequalVar ==
    /\ Reported /\ NumGroups >= 3 /\ all_normal /\ ~is_equal_var
    /\ method = KruskalWallisDunn
    /\ en_report.reason = EnUnequalVar

\* C3: a post-hoc test is run if and only if there are three or more
\* groups and the omnibus p-value returned is below 0.05; it is run once,
\* Tukey after ANOVA and Dunn with Bonferroni adjustment after
\* Kruskal-Wallis.
Thm_C3_PostHocGating ==
    Reported =>
        /\ (posthoc_calls # <<>>)
              <=> (NumGroups >= 3 /\ test_calls[1].p # NaN
                   /\ test_calls[1].p < Alpha)
        /\ Len(posthoc_calls) <= 1
        /\ posthoc_calls # <<>> =>
              /\ method = OneWayAnovaTukey
                    => posthoc_calls[1].cap = "pairwise_tukeyhsd"
              /\ method = KruskalWallisDunn
                    => /\ posthoc_calls[1].cap = "posthoc_dunn"
                       /\ posthoc_calls[1].opt = "p_adjust=bonferroni"
              /\ method \in {OneWayAnovaTukey, KruskalWallisDunn}

\* C3 witness: a Kruskal-Wallis run on three groups with p = 0.0321 that ran
\* Dunn's test.
Wit_C3_DunnRun ==
    /\ Reported /\ NumGroups >= 3 /\ method = KruskalWallisDunn
    /\ test_calls[1].p = 3210
    /\ posthoc_calls = <<[cap |-> "posthoc_dunn", opt |-> "p_adjust=bonferroni"]>>

\* C4 (as claimed): for every method the p-value string in the reports is
\* in scientific notation when p < 0.001 and fixed to 4 decimals otherwise.
Claim_C4_PValueFormat ==
    Reported =>
        /\ en_report.p = (IF test_calls[1].p # NaN /\ test_calls[1].p < SciBelow
                          THEN Fmt2e(test_calls[1].p)
                          ELSE Fmt4f(test_calls[1].p))
        /\ jp_report.p = en_report.p

\* A group all of whose values are equal has zero variance.
ZeroVariance(vals) == \A i, j \in 1..Len(vals) : vals[i] = vals[j]
DegenerateInput ==
    \/ \E k \in 1..Len(data_dict) : ZeroVariance(data_dict[k].vals)
    \/ \E k \in 1..Len(shapiro_calls) : shapiro_calls[k].p = NaN
    \/ \E k \in 1..Len(levene_calls) : levene_calls[k].p = NaN

\* C5 (as claimed): a run whose analysis met a zero-variance group, or a
\* NaN from the normality or variance test, ends in DegenerateInputError
\* and produces no report.
Claim_C5_DegenerateInput ==
    (pc = "done" /\ AnalysisGuard(data_dict) /\ DegenerateInput) =>
        /\ outcome = "DegenerateInputError"
        /\ NoReports

\* The texts a box may hold that parse, and those that parse to at least
\* three values; the boxes holding the latter are the valid groups.
ParsingTexts == {t \in TextChoices \cup {TextEmpty} : ~ParseRaises(t)}
ValidTexts == {t \in ParsingTexts : Len(ParseVals(t)) >= 3}
ValidSlots == {i \in 1..g_count : texts[i] \in ValidTexts}
AllBoxesParse == \A i \in 1..g_count : texts[i] \in ParsingTexts

Thm_C7_ReportsAgree ==
    Reported =>
        /\ jp_report.method = en_report.method
        /\ jp_report.p = en_report.p
        /\ en_report.verdict \in {"Significant Difference Found",
                                  "No Significant Difference"}
        /\ jp_report.verdict \in {"JP: significant difference",
                                  "JP: no significant difference"}
        /\ (jp_report.verdict = "JP: significant difference")
              <=> (en_report.verdict = "Significant Difference Found")
        /\ (en_report.verdict = "Significant Difference Found")
              <=> (test_calls[1].p # NaN /\ test_calls[1].p < Alpha)
        /\ en_report.conclusion \in {"rejected", "not rejected"}
        /\ (en_report.conclusion = "rejected")
              <=> (en_report.verdict = "Significant Difference Found")
        /\ en_report.conclusion_method = en_report.method

\* C7 witness: a report for p exactly 0.05, which is not significant.
Wit_C7_BoundaryNotSignificant ==
    /\ Reported /\ test_calls[1].p = Alpha
    /\ en_report.verdict = "No Significant Difference"
    /\ jp_report.verdict = "JP: no significant difference"
    /\ en_report.conclusion = "not rejected"

\* C8: once the assumption checks are done, all_normal is true exactly when
\* every normality p-value returned is above 0.05, equal_variance exactly
\* when the one variance p-value returned is above 0.05; the normality test
\* was called once per group, in order, and the variance test once, over
\* all groups.
Thm_C8_AssumptionChecker ==
    (pc \in {"test", "report"} \/ Reported) =>
        /\ all_normal <=> \A k \in 1..Len(shapiro_calls) :
                              /\ shapiro_calls[k].p # NaN
                              /\ shapiro_calls[k].p > Alpha
        /\ Len(shapiro_calls) = NumGroups
        /\ \A k \in 1..NumGroups : shapiro_calls[k].group = data_dict[k].name
        /\ Len(levene_calls) = 1
        /\ levene_calls[1].groups = [k \in 1..NumGroups |-> data_dict[k].name]
        /\ is_equal_var <=> (levene_calls[1].p # NaN /\ levene_calls[1].p > Alpha)

\* C8 witness: three groups of which only the first fails normality, with
\* p exactly 0.05, and all_normal false.
Wit_C8_FirstGroupNotNormal ==
    /\ Reported /\ NumGroups = 3
    /\ shapiro_calls[1].p = Alpha
    /\ shapiro_calls[2].p > Alpha /\ shapiro_calls[3].p > Alpha
    /\ ~all_normal

\* The library call that belongs to each method.
MethodCapability(m) ==
    CASE m = StudentT -> [cap |-> "ttest_ind", opt |-> "equal_var=True"]
      [] m = WelchT -> [cap |-> "ttest_ind", opt |-> "equal_var=False"]
      [] m = MannWhitneyU -> [cap |-> "mannwhitneyu", opt |-> "alternative=two-sided"]
      [] m = OneWayAnovaTukey -> [cap |-> "f_oneway", opt |-> ""]
      [] m = KruskalWallisDunn -> [cap |-> "kruskal", opt |-> ""]
      [] OTHER -> [cap |-> "none", opt |-> ""]

\* C9: every report rests on exactly one primary test call, the one that
\* belongs to the method the reports name; the p-value string and the
\* verdict in the reports come from the p-value that call returned, not
\* from the initial values of method, p_final and p_disp.
Thm_C9_DispatchConsistency ==
    Reported =>
        /\ Len(test_calls) = 1
        /\ en_report.method # ""
        /\ test_calls[1].cap = MethodCapability(en_report.method).cap
        /\ test_calls[1].opt = MethodCapability(en_report.method).opt
        /\ p_final = test_calls[1].p
        /\ en_report.p # ""
        /\ en_report.p \in {Fmt4f(test_calls[1].p), Fmt2e(test_calls[1].p)}
        /\ jp_report.p = en_report.p
        /\ (en_report.verdict = "Significant Difference Found")
              <=> (test_calls[1].p # NaN /\ test_calls[1].p < Alpha)

\* C9 witness: a Student's t-test report resting on one pooled ttest_ind
\* call that returned 0.0321.
Wit_C9_StudentPooled ==
    /\ Reported /\ en_report.method = StudentT
    /\ test_calls = <<[cap |-> "ttest_ind", opt |-> "equal_var=True", p |-> 3210]>>
    /\ en_report.p = "0.0321"

====
